---- MODULE Spec2Model ----
(***************************************************************************)
(* Garmin-MCP: session establishment at start-up (src/main.py), the        *)
(* operation calls served afterwards and the heart-rate resampling loop    *)
(* (src/garmin_mcp/core.py).                                               *)
(*                                                                         *)
(* Spec           start-up of one process, a concurrent reader of the      *)
(*                session file and the operation calls served afterwards   *)
(* FairSpec       Spec with weak fairness of the start-up steps            *)
(* SpecResampler  get_heart_rate_details applied to bounded inputs         *)
(***************************************************************************)
EXTENDS Integers, Sequences, FiniteSets, TLC

VARIABLES
    pc,          \* position of main() in src/main.py
    email,       \* parameter / local `email` of the running invocation
    password,    \* parameter / local `password`
    envEmail,    \* os.getenv("GARMIN_EMAIL")
    envPassword, \* os.getenv("GARMIN_PASSWORD")
    file,        \* ./auth/token.pikl: absent, empty (truncated) or a record
    dir,         \* whether ./auth exists
    client,      \* garmin_client's (oauth1_token, oauth2_token)
    token,       \* local `token`
    issued,      \* tokens the provider has issued so far
    depth,       \* calls of main(...) made at line 42
    log,         \* side effects of start-up so far, in order
    seen,        \* what a concurrent reader of the file observed last
    reads,       \* reads the concurrent reader has made
    session,     \* the served session's auth token: fresh, expired, renewed
    caller,      \* position of each dispatched operation call
    inflight,    \* renewals in progress
    renewals,    \* invocations of the renewal step by operation calls
    rin,         \* resampler: inputs of one get_heart_rate_details call
    rout         \* resampler: NotCalled or what the call returned

svars == <<pc, email, password, envEmail, envPassword, file, dir, client,
           token, issued, depth, log, seen, reads, session, caller,
           inflight, renewals>>
rvars == <<rin, rout>>
vars == <<svars, rvars>>

None == "None"

-----------------------------------------------------------------------------
(* Bounds *)
MaxReads == 2
NumCallers == 2
MaxDepth == 3

Callers == 1..NumCallers

-----------------------------------------------------------------------------
(* Start-up: main() of src/main.py, one step per file-system or provider   *)
(* call.  Tokens are numbered in the order the provider issues them.       *)

NoToken == 0
StoredToken == 1

Truthy(s) == s # None /\ s # ""

\* the environment is asked first
EnvFirst(a, b) == IF Truthy(b) THEN b ELSE a

\* Python's `a or b`
PyOr(a, b) == IF Truthy(a) THEN a ELSE b

TokenPair(o1, o2) == [oauth1 |-> o1, oauth2 |-> o2]

\* contents of ./auth/token.pikl
FileAbsent == [st |-> "absent", oauth1 |-> NoToken, oauth2 |-> NoToken]
FileEmpty == [st |-> "empty", oauth1 |-> NoToken, oauth2 |-> NoToken]
FileOf(tp) == [st |-> "record", oauth1 |-> tp.oauth1, oauth2 |-> tp.oauth2]
NotRead == [st |-> "not_read", oauth1 |-> NoToken, oauth2 |-> NoToken]

Occurs(e) == Cardinality({i \in 1..Len(log) : log[i] = e})

FirstIndex(e) == IF \E i \in 1..Len(log) : log[i] = e
                 THEN CHOOSE i \in 1..Len(log) :
                        log[i] = e /\ \A j \in 1..(i-1) : log[j] # e
                 ELSE 0

SInit ==
    /\ pc = "resolve"
    /\ email \in {None, "u"}
    /\ password \in {None, "p"}
    /\ envEmail \in {None, "env_u"}
    /\ envPassword \in {None, "env_p"}
    /\ file \in {FileAbsent, FileOf(TokenPair(StoredToken, StoredToken))}
    /\ dir \in BOOLEAN
    /\ (file.st # "absent" => dir)
    /\ client = TokenPair(NoToken, NoToken)
    /\ token = [tag |-> "none", oauth1 |-> NoToken, oauth2 |-> NoToken]
    /\ issued = StoredToken
    /\ depth = 0
    /\ log = <<>>
    /\ seen = NotRead
    /\ reads = 0
    /\ session = "fresh"
    /\ caller = [c \in Callers |-> "idle"]
    /\ inflight = 0
    /\ renewals = 0

\* lines 27-31
Resolve ==
    /\ pc = "resolve"
    /\ email' = PyOr(email, envEmail)
    /\ password' = PyOr(password, envPassword)
    /\ IF ~Truthy(email') \/ ~Truthy(password')
       THEN pc' = "exit_config" /\ log' = Append(log, "config_error")
       ELSE pc' = "exists" /\ log' = log
    /\ UNCHANGED <<envEmail, envPassword, file, dir, client, token, issued,
                   depth, seen, reads, session, caller, inflight, renewals>>
    /\ UNCHANGED rvars

\* lines 32-33, 46
Exists ==
    /\ pc = "exists"
    /\ client' = TokenPair(NoToken, NoToken)
    /\ pc' = IF file.st # "absent" THEN "load" ELSE "login"
    /\ log' = Append(log, IF file.st # "absent" THEN "file_found" ELSE "no_file")
    /\ UNCHANGED <<email, password, envEmail, envPassword, file, dir, token,
                   issued, depth, seen, reads, session, caller, inflight,
                   renewals>>
    /\ UNCHANGED rvars

\* lines 34-35: pickle.load raises on a file that holds no record
Load ==
    /\ pc = "load"
    /\ IF file.st # "record"
       THEN /\ pc' = "fatal"
            /\ log' = Append(log, "load_error")
            /\ client' = client
       ELSE /\ pc' = "refresh"
            /\ log' = Append(log, "load")
            /\ client' = TokenPair(file.oauth1, file.oauth2)
    /\ UNCHANGED <<email, password, envEmail, envPassword, file, dir, token,
                   issued, depth, seen, reads, session, caller, inflight,
                   renewals>>
    /\ UNCHANGED rvars

\* line 36 sits outside the try block of lines 37-42: a rejection is an
\* exception nothing catches
RefreshRejected ==
    /\ pc' = "fatal"
    /\ log' = Append(log, "renew_rejected")
    /\ UNCHANGED <<client, token, issued>>

\* line 36: the renewal puts the renewed token into the client; what the
\* call hands back to `token` is the library's choice, the renewed token or
\* nothing (None)
RefreshReturns(renewed) == {renewed, NoToken}

RefreshAccepted ==
    /\ pc' = "probe"
    /\ log' = Append(log, "renew_ok")
    /\ issued' = issued + 1
    /\ client' = [client EXCEPT !.oauth2 = issued + 1]
    /\ \E ret \in RefreshReturns(issued + 1) :
          token' = [tag |-> "oauth2", oauth1 |-> NoToken, oauth2 |-> ret]

Refresh ==
    /\ pc = "refresh"
    /\ \/ RefreshAccepted
       \/ RefreshRejected
    /\ UNCHANGED <<email, password, envEmail, envPassword, file, dir, depth,
                   seen, reads, session, caller, inflight, renewals>>
    /\ UNCHANGED rvars

\* lines 37-40, 43
ProbeOk ==
    /\ pc' = "open43"
    /\ log' = Append(log, "probe_ok")

\* the failure is swallowed and start-up goes on to line 43
ProbeFailureIgnored ==
    /\ pc' = "open43"
    /\ log' = Append(log, "probe_failed")

ProbeFailed ==
    /\ pc' = "remove"
    /\ log' = Append(log, "probe_failed")

Probe ==
    /\ pc = "probe"
    /\ \/ ProbeOk
       \/ ProbeFailed
    /\ UNCHANGED <<email, password, envEmail, envPassword, file, dir, client,
                   token, issued, depth, seen, reads, session, caller,
                   inflight, renewals>>
    /\ UNCHANGED rvars

\* the file is left in place
RemoveKeepsFile == file

\* line 41: os.remove

RemoveFile == FileAbsent

Remove ==
    /\ pc = "remove"
    /\ file' = RemoveFile
    /\ log' = Append(log, "delete")
    /\ pc' = "restart"
    /\ UNCHANGED <<email, password, envEmail, envPassword, dir, client,
                   token, issued, depth, seen, reads, session, caller,
                   inflight, renewals>>
    /\ UNCHANGED rvars

\* line 42 with lines 18-26: the name `main` is bound to the click command
\* that the decorator of line 18 builds, so the call goes through click's
\* dispatch with (email, password, port, host, sse) as its positional
\* arguments.  Either the body is entered again with these arguments, or
\* the dispatch ends the process before line 27 is reached.
RestartEntersBody ==
    /\ pc' = "resolve"
    /\ log' = Append(log, "restart")

RestartDispatchFails ==
    /\ pc' = "fatal"
    /\ log' = log \o <<"restart", "dispatch_error">>

Restart ==
    /\ pc = "restart"
    /\ depth < MaxDepth
    /\ depth' = depth + 1
    /\ \/ RestartEntersBody
       \/ RestartDispatchFails
    /\ UNCHANGED <<email, password, envEmail, envPassword, file, dir, client,
                   token, issued, seen, reads, session, caller, inflight,
                   renewals>>
    /\ UNCHANGED rvars

\* what garmin_client.login(email, password) returns or raises
LoginResults ==
    { [tag |-> "tokens", oauth1 |-> issued + 1, oauth2 |-> issued + 1],
      [tag |-> "needs_mfa", oauth1 |-> NoToken, oauth2 |-> NoToken],
      [tag |-> "raises", oauth1 |-> NoToken, oauth2 |-> NoToken] }

\* the answer is taken for a token pair
MfaContinues == "makedirs"

\* lines 48-50: sys.exit(1)
MfaGoesTo == "exit_mfa"

\* lines 47-50
Login ==
    /\ pc = "login"
    /\ \E r \in LoginResults :
        IF r.tag = "raises"
        THEN /\ pc' = "fatal"
             /\ log' = log \o <<"login", "login_rejected">>
             /\ UNCHANGED <<issued, client, token>>
        ELSE /\ token' = r
             /\ IF r.tag = "needs_mfa"
                THEN /\ pc' = MfaGoesTo
                     /\ log' = log \o <<"login", "login_mfa">>
                     /\ UNCHANGED <<issued, client>>
                ELSE /\ pc' = "makedirs"
                     /\ log' = log \o <<"login", "login_ok">>
                     /\ issued' = issued + 1
                     /\ client' = TokenPair(r.oauth1, r.oauth2)
    /\ UNCHANGED <<email, password, envEmail, envPassword, file, dir, depth,
                   seen, reads, session, caller, inflight, renewals>>
    /\ UNCHANGED rvars

\* lines 51-52
MakeDirs ==
    /\ pc = "makedirs"
    /\ dir' = TRUE
    /\ pc' = "open53"
    /\ UNCHANGED <<email, password, envEmail, envPassword, file, client,
                   token, issued, depth, log, seen, reads, session, caller,
                   inflight, renewals>>
    /\ UNCHANGED rvars

\* open(path, "wb") creates the file or truncates it to length zero
OpenWb == FileEmpty

\* line 43
RenewOpen ==
    /\ pc = "open43"
    /\ file' = OpenWb
    /\ pc' = "dump44"
    /\ UNCHANGED <<email, password, envEmail, envPassword, dir, client,
                   token, issued, depth, log, seen, reads, session, caller,
                   inflight, renewals>>
    /\ UNCHANGED rvars

\* lines 44-45: pickle.dump([garmin_client.oauth1_token, token], f)
RenewDump ==
    /\ pc = "dump44"
    /\ file' = FileOf(TokenPair(client.oauth1, token.oauth2))
    /\ log' = Append(log, "write")
    /\ pc' = "authenticated"
    /\ UNCHANGED <<email, password, envEmail, envPassword, dir, client,
                   token, issued, depth, seen, reads, session, caller,
                   inflight, renewals>>
    /\ UNCHANGED rvars

\* line 53
LoginOpen ==
    /\ pc = "open53"
    /\ file' = OpenWb
    /\ pc' = "dump54"
    /\ UNCHANGED <<email, password, envEmail, envPassword, dir, client,
                   token, issued, depth, log, seen, reads, session, caller,
                   inflight, renewals>>
    /\ UNCHANGED rvars

\* the process goes on as if the record had been written
LoginDumpOmitted ==
    /\ pc = "dump54"
    /\ pc' = "authenticated"
    /\ UNCHANGED <<email, password, envEmail, envPassword, file, dir, client,
                   token, issued, depth, log, seen, reads, session, caller,
                   inflight, renewals>>
    /\ UNCHANGED rvars

\* lines 54-55: pickle.dump(token, f)
LoginDump ==
    /\ pc = "dump54"
    /\ file' = FileOf(TokenPair(token.oauth1, token.oauth2))
    /\ log' = Append(log, "write")
    /\ pc' = "authenticated"
    /\ UNCHANGED <<email, password, envEmail, envPassword, dir, client,
                   token, issued, depth, seen, reads, session, caller,
                   inflight, renewals>>
    /\ UNCHANGED rvars

\* lines 56-81
ServerStart ==
    /\ pc = "authenticated"
    /\ pc' = "serving"
    /\ log' = Append(log, "server_start")
    /\ UNCHANGED <<email, password, envEmail, envPassword, file, dir, client,
                   token, issued, depth, seen, reads, session, caller,
                   inflight, renewals>>
    /\ UNCHANGED rvars

MainStep ==
    \/ Resolve
    \/ Exists
    \/ Load
    \/ Refresh
    \/ Probe
    \/ Remove
    \/ Restart
    \/ Login
    \/ MakeDirs
    \/ RenewOpen
    \/ RenewDump
    \/ LoginOpen
    \/ LoginDump
    \/ ServerStart

-----------------------------------------------------------------------------
(* A concurrent reader of ./auth/token.pikl, such as a second process at   *)
(* lines 34-35.                                                            *)
ReadFile ==
    /\ reads < MaxReads
    /\ reads' = reads + 1
    /\ seen' = file
    /\ UNCHANGED <<pc, email, password, envEmail, envPassword, file, dir,
                   client, token, issued, depth, log, session, caller,
                   inflight, renewals>>
    /\ UNCHANGED rvars

-----------------------------------------------------------------------------
(* Operation calls (src/garmin_mcp/core.py): every handler forwards to     *)
(* client.connectapi on the one client object the closures share; nothing  *)
(* in the handlers serialises the calls.                                   *)

\* line 56 of main.py, crate_mcp_server(port=port): the client the tools of
\* the server call.  The function is not among the sources and the call
\* passes no client; section 2 of the design has every operation call use
\* the live session, which is garmin_client.
crate_mcp_server == client

\* the auth token of the served session runs out
Expire ==
    /\ pc = "serving"
    /\ session = "fresh"
    /\ session' = "expired"
    /\ UNCHANGED <<pc, email, password, envEmail, envPassword, file, dir,
                   client, token, issued, depth, log, seen, reads, caller,
                   inflight, renewals>>
    /\ UNCHANGED rvars

\* a handler is entered
Dispatch(c) ==
    /\ pc = "serving"
    /\ caller[c] = "idle"
    /\ caller' = [caller EXCEPT ![c] = "called"]
    /\ UNCHANGED <<pc, email, password, envEmail, envPassword, file, dir,
                   client, token, issued, depth, log, seen, reads, session,
                   inflight, renewals>>
    /\ UNCHANGED rvars

\* client.connectapi: a call that finds the token expired starts a renewal
\* (the renewal is the client library's, as section 5 of the design has it;
\* the handlers add nothing around the call)
ConnectApi(c) ==
    /\ caller[c] = "called"
    /\ IF session = "expired"
       THEN /\ caller' = [caller EXCEPT ![c] = "renewing"]
            /\ inflight' = inflight + 1
            /\ renewals' = renewals + 1
       ELSE /\ caller' = [caller EXCEPT ![c] = "request"]
            /\ UNCHANGED <<inflight, renewals>>
    /\ UNCHANGED <<pc, email, password, envEmail, envPassword, file, dir,
                   client, token, issued, depth, log, seen, reads, session>>
    /\ UNCHANGED rvars

\* the provider answers the renewal
Renewed(c) ==
    /\ caller[c] = "renewing"
    /\ caller' = [caller EXCEPT ![c] = "request"]
    /\ inflight' = inflight - 1
    /\ session' = "renewed"
    /\ issued' = issued + 1
    /\ client' = [client EXCEPT !.oauth2 = issued + 1]
    /\ UNCHANGED <<pc, email, password, envEmail, envPassword, file, dir,
                   token, depth, log, seen, reads, renewals>>
    /\ UNCHANGED rvars

\* the gateway answers the request; the handler returns
Respond(c) ==
    /\ caller[c] = "request"
    /\ caller' = [caller EXCEPT ![c] = "done"]
    /\ UNCHANGED <<pc, email, password, envEmail, envPassword, file, dir,
                   client, token, issued, depth, log, seen, reads, session,
                   inflight, renewals>>
    /\ UNCHANGED rvars

OperationCall ==
    \E c \in Callers :
        \/ Dispatch(c)
        \/ ConnectApi(c)
        \/ Renewed(c)
        \/ Respond(c)

-----------------------------------------------------------------------------
(* get_heart_rate_details (src/garmin_mcp/core.py, lines 66-111).  Times   *)
(* are integers: a timestamp is milliseconds since the epoch, a local      *)
(* date-time is milliseconds since the local epoch, "HH:MM:SS" is the      *)
(* triple <<h, m, s>>.                                                     *)

MaxSamples == 3

DayMs == 86400000
HourMs == 3600000

\* the server's time zone: UTC offset `before` up to instant `at`, `after`
\* from then on
FixedZone(off) == [before |-> off, after |-> off, at |-> 0]
Zones ==
    { FixedZone(0),
      FixedZone(HourMs),
      [before |-> HourMs, after |-> 2 * HourMs, at |-> DayMs],
      [before |-> 2 * HourMs, after |-> HourMs, at |-> DayMs] }

\* timestamps the gateway may deliver, around the instant DayMs
Stamps == { DayMs - 60000, DayMs - 1000, DayMs, DayMs + 500,
            DayMs + 60000, DayMs + 61000 }

NoTime == <<>>
Windows ==
    { <<NoTime, NoTime>>,
      <<<<1, 0, 0>>, NoTime>>,
      <<NoTime, <<1, 0, 0>>>>,
      <<<<0, 59, 0>>, <<1, 0, 0>>>>,
      <<<<1, 0, 0>>, <<1, 1, 0>>>>,
      <<<<1, 1, 0>>, <<0, 59, 0>>>> }

Intervals == {-1, 0, 1, 2}

\* hr[1] is the timestamp, hr[2] the value: <<>> for null, <<v>> otherwise
Null == <<>>
SampleSeqs(n) ==
    { s \in [1..n -> Stamps \X {TRUE, FALSE}] :
        \A i \in 1..(n-1) : s[i][1] <= s[i+1][1] }

HeartRateValues(s) ==
    [i \in 1..Len(s) |-> <<s[i][1], IF s[i][2] THEN <<60 + i>> ELSE Null>>]

ValueError == "ValueError"

\* the check of the two bounds is left out
BoundsUnchecked(time_start, time_end) == FALSE

\* line 80
OneBoundOnly(time_start, time_end) == (time_start # NoTime) # (time_end # NoTime)

\* lines 84-85: datetime.strptime(s, "%H:%M:%S").time()
Strptime(s) == ((s[1] * 60 + s[2]) * 60 + s[3]) * 1000

\* line 97: datetime.fromtimestamp(float(hr[0]) / 1000), a naive local time
UtcOffset(zone, ms) == IF ms < zone.at THEN zone.before ELSE zone.after

FromTimestamp(zone, ms) == ms + UtcOffset(zone, ms)

\* line 98
TimeOnly(time_hr) == time_hr % DayMs

\* the hour is printed on the 12-hour clock, "%I:%M:%S"
Strftime12(time_hr) ==
    LET sec == (time_hr % DayMs) \div 1000
        h == sec \div 3600
    IN  <<IF h % 12 = 0 THEN 12 ELSE h % 12, (sec \div 60) % 60, sec % 60>>

\* line 106: strftime("%H:%M:%S")
Strftime(time_hr) ==
    LET sec == (time_hr % DayMs) \div 1000
    IN  <<sec \div 3600, (sec \div 60) % 60, sec % 60>>

\* the end of the window is left out
UpperBoundExclusive(time_start, time_end, time_only) ==
    \/ time_start = NoTime
    \/ time_end = NoTime
    \/ (Strptime(time_start) <= time_only /\ time_only < Strptime(time_end))

\* lines 100-102
InWindow(time_start, time_end, time_only) ==
    \/ time_start = NoTime
    \/ time_end = NoTime
    \/ (Strptime(time_start) <= time_only /\ time_only <= Strptime(time_end))

\* line 104; last_logged_time is <<>> for None
Due(last_logged_time, time_hr, interval_minutes) ==
    \/ last_logged_time = <<>>
    \/ time_hr - last_logged_time[1] >= interval_minutes * 60 * 1000

\* no sample is taken for null
NoneKept(hr) == FALSE

\* line 94: hr[1] is None
IsNone(hr) == hr[2] = Null

\* the point is put in front
Prepend(out, e) == <<e>> \o out

\* lines 105-108: data["heartRateValues"].append

Emit(out, e) == Append(out, e)

\* lines 93-109: the loop from sample i on.  `out` collects the emitted
\* points, `src` the positions of the samples they were made from.
RECURSIVE Walk(_, _, _, _, _)
Walk(in, i, last_logged_time, out, src) ==
    IF i > Len(in.samples) THEN [points |-> out, src |-> src]
    ELSE
      LET hr == in.samples[i]
          time_hr == FromTimestamp(in.zone, hr[1])
          time_only == TimeOnly(time_hr)
      IN  IF IsNone(hr)
          THEN Walk(in, i + 1, last_logged_time, out, src)
          ELSE IF ~InWindow(in.time_start, in.time_end, time_only)
          THEN Walk(in, i + 1, last_logged_time, out, src)
          ELSE IF Due(last_logged_time, time_hr, in.interval_minutes)
          THEN Walk(in, i + 1, <<time_hr>>,
                    Emit(out, [time |-> Strftime(time_hr), value |-> hr[2]]),
                    Append(src, i))
          ELSE Walk(in, i + 1, last_logged_time, out, src)

\* only the new list is handed back
ValuesOnly(in) == None

\* lines 87 and 111: `data`, but for its "heartRateValues"
ReturnedData(in) == in.other

\* line 88: data.pop("heartRateValues", [])
Pop(in) == IF in.has_values THEN in.samples ELSE <<>>

\* lines 80-111; `requests` counts the calls of client.connectapi (line 87),
\* `other` is what the returned dictionary holds beside "heartRateValues"
get_heart_rate_details(in) ==
    IF OneBoundOnly(in.time_start, in.time_end)
    THEN [error |-> ValueError, points |-> <<>>, src |-> <<>>, requests |-> 0,
          other |-> None]
    ELSE LET heart_rate_values == Pop(in)
             r == Walk([in EXCEPT !.samples = heart_rate_values],
                       1, <<>>, <<>>, <<>>)
         IN  [error |-> "", points |-> r.points, src |-> r.src, requests |-> 1,
              other |-> ReturnedData(in)]

\* what the gateway's answer holds beside "heartRateValues"
OtherFields == {"rest_50"}

\* a gateway answer with "heartRateValues", or (has_values false) without
Inputs(max) ==
    { [zone |-> z, samples |-> HeartRateValues(s), has_values |-> TRUE,
       other |-> o, time_start |-> w[1], time_end |-> w[2],
       interval_minutes |-> m] :
        z \in Zones,
        s \in UNION { SampleSeqs(n) : n \in 0..max },
        o \in OtherFields,
        w \in Windows,
        m \in Intervals }
    \cup
    { [zone |-> z, samples |-> <<>>, has_values |-> FALSE,
       other |-> o, time_start |-> w[1], time_end |-> w[2],
       interval_minutes |-> m] :
        z \in Zones,
        o \in OtherFields,
        w \in Windows,
        m \in Intervals }

NotCalled ==
    [error |-> "not_called", points |-> <<>>, src |-> <<>>, requests |-> 0,
     other |-> None]

RIdle == rin = None /\ rout = NotCalled

RInit == rin \in Inputs(MaxSamples) /\ rout = NotCalled

\* one call of the operation
Call ==
    /\ rout = NotCalled
    /\ rout' = get_heart_rate_details(rin)
    /\ UNCHANGED rin
    /\ UNCHANGED svars

SIdle ==
    /\ pc = "serving"
    /\ email = "u"
    /\ password = "p"
    /\ envEmail = None
    /\ envPassword = None
    /\ file = FileOf(TokenPair(StoredToken, StoredToken))
    /\ dir = TRUE
    /\ client = TokenPair(StoredToken, StoredToken)
    /\ token = [tag |-> "none", oauth1 |-> NoToken, oauth2 |-> NoToken]
    /\ issued = StoredToken
    /\ depth = 0
    /\ log = <<>>
    /\ seen = NotRead
    /\ reads = 0
    /\ session = "fresh"
    /\ caller = [c \in Callers |-> "idle"]
    /\ inflight = 0
    /\ renewals = 0

RNext == Call

ResamplerInit == SIdle /\ RInit

SpecResampler == ResamplerInit /\ [][RNext]_vars

-----------------------------------------------------------------------------
Init == SInit /\ RIdle


Next ==
    \/ MainStep
    \/ ReadFile
    \/ Expire
    \/ OperationCall

Spec == Init /\ [][Next]_vars

\* main() runs to its end: nothing in it waits
FairSpec == Spec /\ WF_vars(MainStep)

-----------------------------------------------------------------------------
(* Session establishment: properties *)

Authenticated == pc \in {"authenticated", "serving"}

EstablishmentEnded ==
    pc \in {"authenticated", "serving", "fatal", "exit_mfa", "exit_config"}

\* C1: when the validation probe of a loaded session file fails, the file is
\* deleted before the restart, the restarted procedure submits the
\* credentials (fresh login), a successful fresh login leaves the file
\* written again, and there is at most one restart and one load of the file.
C1_StaleFileRecovered ==
    Occurs("probe_failed") > 0 =>
        /\ Occurs("restart") > 0 =>
              /\ 0 < FirstIndex("delete")
              /\ FirstIndex("delete") < FirstIndex("restart")
        /\ (Occurs("restart") > 0 /\ EstablishmentEnded) => Occurs("login") > 0
        /\ (Occurs("login_ok") > 0 /\ Authenticated) =>
              (file.st = "record" /\ Occurs("write") = 1)
        /\ Occurs("restart") <= 1
        /\ Occurs("load") <= 1

\* C2: started without a session file, with credentials the provider accepts
\* without a multi-factor challenge, establishment deletes nothing, cannot
\* fail any more, and reaches Authenticated with exactly one write, the file
\* then holding the token pair the login returned.
C2_FreshLoginWritesOnce ==
    (Len(log) > 0 /\ log[1] = "no_file" /\ Occurs("login_ok") > 0) =>
        /\ Occurs("delete") = 0
        /\ pc \in {"makedirs", "open53", "dump54", "authenticated", "serving"}
        /\ Occurs("write") = (IF Authenticated THEN 1 ELSE 0)
        /\ Authenticated =>
              file = FileOf(TokenPair(token.oauth1, token.oauth2))

C2_Witness ==
    /\ Len(log) > 0
    /\ log[1] = "no_file"
    /\ Occurs("login_ok") > 0
    /\ Authenticated
    /\ Occurs("write") = 1

\* C3: once the provider has answered a login with a multi-factor
\* requirement the process has exited: that answer is the last thing that
\* happened, the login was submitted once, no session file was written or
\* opened for writing, the server was not started and no further step of
\* start-up is possible.
C3_MfaIsFatal ==
    Occurs("login_mfa") > 0 =>
        /\ pc = "exit_mfa"
        /\ log[Len(log)] = "login_mfa"
        /\ Occurs("login") = 1
        /\ Occurs("write") = 0
        /\ file.st = "absent"
        /\ Occurs("server_start") = 0
        /\ ~ENABLED MainStep

C3_Witness ==
    /\ Occurs("login_mfa") > 0
    /\ depth = 0
    /\ pc = "exit_mfa"

\* C4: a rejected renewal of a loaded session ends like a failed validation
\* probe: by the time establishment has ended the session file has been
\* deleted and the procedure restarted once.
C4_RejectedRenewalRecovers ==
    (Occurs("renew_rejected") > 0 /\ EstablishmentEnded) =>
        /\ Occurs("delete") = 1
        /\ Occurs("restart") = 1

\* C5: whatever the file and the provider do, establishment ends, in
\* Authenticated or in a fatal error, and the procedure is restarted at most
\* once on the way.
C5_Terminates ==
    /\ [](Occurs("restart") <= 1)
    /\ <>EstablishmentEnded

C5_Witness ==
    /\ Occurs("restart") = 1
    /\ pc = "fatal"
    /\ log[Len(log)] # "restart"

C7_NoPartialRead ==
    seen.st \in {"not_read", "absent", "record"}

\* C18: started with a session file whose renewal and validation probe both
\* succeed, establishment ends in Authenticated with exactly one write, the
\* file then holding the client's token pair with the renewed token, with
\* no deletion and no login submitted; and in every run that has ended
\* there are as many deletions as failed validation probes.
C18_RenewalWritesOnce ==
    /\ ( /\ Occurs("renew_ok") > 0
          /\ Occurs("probe_ok") > 0
          /\ EstablishmentEnded ) =>
            /\ Authenticated
            /\ Occurs("write") = 1
            /\ Occurs("delete") = 0
            /\ Occurs("login") = 0
            /\ file.st = "record"
            /\ file.oauth1 = client.oauth1
            /\ file.oauth2 # NoToken
            /\ pc = "authenticated" => file = FileOf(client)
    /\ EstablishmentEnded => Occurs("delete") = Occurs("probe_failed")

C14_ConfigResolved ==
    /\ [][(pc = "resolve" /\ pc' # "resolve") =>
            /\ email' = (IF email # None THEN email ELSE envEmail)
            /\ password' = (IF password # None THEN password ELSE envPassword)
            /\ (pc' = "exit_config") <=> (email' = None \/ password' = None)
            /\ (pc' = "exit_config") =>
                  /\ log' = <<"config_error">>
                  /\ file' = file
                  /\ dir' = dir
                  /\ issued' = issued
                  /\ client' = client]_vars
    /\ [](pc = "exit_config" =>
            /\ log = <<"config_error">>
            /\ client = TokenPair(NoToken, NoToken)
            /\ ~ENABLED MainStep)

C14_Witness ==
    /\ pc = "exit_config"
    /\ email = "u"
    /\ envEmail = "env_u"
    /\ password = None
    /\ log = <<"config_error">>

-----------------------------------------------------------------------------
(* Resampler: properties *)

Called == rout # NotCalled /\ rout.error = ""

\* "HH:MM:SS" strings compare like their <<h, m, s>> triples
TimeLeq(a, b) ==
    \/ a[1] < b[1]
    \/ a[1] = b[1] /\ a[2] < b[2]
    \/ a[1] = b[1] /\ a[2] = b[2] /\ a[3] <= b[3]

LocalTime(i) == FromTimestamp(rin.zone, rin.samples[i][1])

\* C8: consecutive emitted points come from samples whose timestamps are at
\* least interval_minutes minutes apart.
C8_SpacedByInterval ==
    Called =>
        \A k \in 1..(Len(rout.src) - 1) :
            rin.samples[rout.src[k + 1]][1] - rin.samples[rout.src[k]][1]
                >= rin.interval_minutes * 60 * 1000

\* C9 as stated: for every sample sequence the HH:MM:SS time of each emitted
\* point is not earlier than that of the point emitted before it.
C9_OrderedByTime ==
    Called =>
        \A k \in 1..(Len(rout.points) - 1) :
            TimeLeq(rout.points[k].time, rout.points[k + 1].time)

OneLocalDay ==
    \A i, j \in 1..Len(rin.samples) :
        LocalTime(i) \div DayMs = LocalTime(j) \div DayMs

LocalAscending ==
    \A i \in 1..(Len(rin.samples) - 1) : LocalTime(i) <= LocalTime(i + 1)

\* C9 amended: for sample sequences whose local date-times are ascending and
\* fall on one local calendar day, the HH:MM:SS time of each emitted point
\* is not earlier than that of the point emitted before it.
C9_OrderedWithinOneDay ==
    (Called /\ OneLocalDay /\ LocalAscending) =>
        \A k \in 1..(Len(rout.points) - 1) :
            TimeLeq(rout.points[k].time, rout.points[k + 1].time)

C9_Witness ==
    /\ Called
    /\ OneLocalDay
    /\ LocalAscending
    /\ rin.interval_minutes > 0
    /\ Len(rout.points) >= 2
    /\ Len(rout.points) < Len(rin.samples)
    /\ rout.points[1].time # rout.points[2].time

\* C10: with a window [S, E] every emitted point has S <= time <= E, both
\* as printed and as the time of day of its sample; a sample with a value
\* at exactly S or exactly E that no sample with a value precedes is
\* emitted (S <= E); and S > E gives an empty result.
C10_WindowInclusive ==
    (Called /\ rin.time_start # NoTime /\ rin.time_end # NoTime) =>
        LET S == Strptime(rin.time_start)
            E == Strptime(rin.time_end)
        IN  /\ \A k \in 1..Len(rout.points) :
                  /\ TimeLeq(rin.time_start, rout.points[k].time)
                  /\ TimeLeq(rout.points[k].time, rin.time_end)
                  /\ S <= TimeOnly(LocalTime(rout.src[k]))
                  /\ TimeOnly(LocalTime(rout.src[k])) <= E
            /\ \A i \in 1..Len(rin.samples) :
                  ( /\ S <= E
                    /\ rin.samples[i][2] # Null
                    /\ TimeOnly(LocalTime(i)) \in {S, E}
                    /\ \A j \in 1..(i - 1) : rin.samples[j][2] = Null )
                  => (rout.src # <<>> /\ rout.src[1] = i)
            /\ S > E => rout.points = <<>>

C10_Witness ==
    /\ Called
    /\ rin.time_start # NoTime
    /\ rin.time_end # NoTime
    /\ Strptime(rin.time_start) < Strptime(rin.time_end)
    /\ \E k \in 1..Len(rout.points) : rout.points[k].time = rin.time_end
    /\ \E i \in 1..Len(rin.samples) :
          /\ rin.samples[i][2] # Null
          /\ TimeOnly(LocalTime(i)) = Strptime(rin.time_start) - 1000
          /\ \A k \in 1..Len(rout.src) : rout.src[k] # i

\* C11: a call with exactly one of time_start and time_end raises ValueError
\* to the caller with no request sent to the gateway and no data returned;
\* a call with both bounds or with neither passes the check, and its request
\* is sent.
C11_OneBoundRejected ==
    rout # NotCalled =>
        IF (rin.time_start = NoTime) # (rin.time_end = NoTime)
        THEN /\ rout.error = ValueError
             /\ rout.requests = 0
             /\ rout.points = <<>>
        ELSE /\ rout.error = ""
             /\ rout.requests = 1

C11_Witness ==
    /\ rout # NotCalled
    /\ rin.time_start = NoTime
    /\ rin.time_end # NoTime
    /\ \E i \in 1..Len(rin.samples) : rin.samples[i][2] # Null
    /\ rout.error = ValueError

\* C12: every emitted point carries the value of the sample it was made
\* from, and that sample has a value: no point has a null value, whatever
\* the window and the interval.
C12_NoAbsentValue ==
    Called =>
        /\ Len(rout.src) = Len(rout.points)
        /\ \A k \in 1..Len(rout.points) :
              /\ rin.samples[rout.src[k]][2] # Null
              /\ rout.points[k].value = rin.samples[rout.src[k]][2]
              /\ rout.points[k].value # Null

C12_Witness ==
    /\ Called
    /\ Len(rin.samples) >= 2
    /\ rin.samples[1][2] = Null
    /\ rin.time_start = NoTime
    /\ rout.src # <<>>
    /\ rout.src[1] = 2

\* The points of a result handed to the operation again: a point has no
\* timestamp, only its "HH:MM:SS", which is read back as a time of one day.
AsSamples(points) ==
    [k \in 1..Len(points) |-> <<Strptime(points[k].time), points[k].value>>]

Reapplied ==
    get_heart_rate_details(
        [rin EXCEPT !.zone = FixedZone(0), !.samples = AsSamples(rout.points)])

\* C13 as stated: for every sample sequence, resampling the emitted points
\* with the same interval and the same window returns the same points.
C13_Idempotent ==
    Called => Reapplied.points = rout.points

\* C13 amended: for sample sequences whose local date-times are ascending
\* and fall on one local calendar day, resampling the emitted points with
\* the same interval and the same window returns the same points.
C13_IdempotentWithinOneDay ==
    (Called /\ OneLocalDay /\ LocalAscending) =>
        Reapplied.points = rout.points

C13_Witness ==
    /\ Called
    /\ OneLocalDay
    /\ LocalAscending
    /\ rin.interval_minutes = 1
    /\ rin.time_start # NoTime
    /\ Len(rout.points) = 2
    /\ Len(rin.samples) = 3
    /\ \A i \in 1..3 : rin.samples[i][2] # Null
    /\ Reapplied.points = rout.points

C16_RoundedToInterval ==
    (Called /\ rin.interval_minutes > 0) =>
        \A k \in 1..Len(rout.points) :
            LET t == rout.points[k].time
            IN  /\ t[3] = 0
                /\ (t[1] * 60 + t[2]) % rin.interval_minutes = 0

\* a sample that has a value and lies inside the window, if one is given
Survives(i) ==
    /\ rin.samples[i][2] # Null
    /\ InWindow(rin.time_start, rin.time_end, TimeOnly(LocalTime(i)))

\* the greedy single pass over the surviving samples from sample i on:
\* `last` is the timestamp of the last sample selected, `sel` the positions
\* selected so far
RECURSIVE Greedy(_, _, _)
Greedy(i, last, sel) ==
    IF i > Len(rin.samples) THEN sel
    ELSE IF ~Survives(i) THEN Greedy(i + 1, last, sel)
    ELSE IF \/ last = <<>>
            \/ rin.samples[i][1] - last[1] >= rin.interval_minutes * 60 * 1000
    THEN Greedy(i + 1, <<rin.samples[i][1]>>, Append(sel, i))
    ELSE Greedy(i + 1, last, sel)

\* C17: the points returned are made from exactly the samples the greedy
\* single pass selects: the first surviving sample, then each surviving
\* sample whose timestamp is at least interval_minutes minutes after the
\* timestamp of the sample selected last.
C17_GreedySelection ==
    Called => rout.src = Greedy(1, <<>>, <<>>)

\* positions of the surviving samples, in input order
Survivors == SelectSeq([i \in 1..Len(rin.samples) |-> i], Survives)

\* C19: with interval_minutes zero or negative every sample that has a
\* value and lies inside the window (if one is given) is emitted, in input
\* order, samples with equal timestamps included.
C19_NoMinimumSpacing ==
    (Called /\ rin.interval_minutes <= 0) => rout.src = Survivors

====
